---- MODULE Spec2Model ----
(***************************************************************************)
(* Model of src/src/request.ts: the entry point _request, the option       *)
(* normalizer sanitizeOpts, the direct connector createConnection with its *)
(* redirect handling, the proxy tunnel connector createProxiedConnection   *)
(* and the body encoder.  One top-level call is made; the transport        *)
(* (node http/https) is the environment and delivers 'response', 'error'   *)
(* and 'connect' events.                                                   *)
(***************************************************************************)
EXTENDS Integers, Sequences, FiniteSets, TLC

\* ------------------------------------------------------------------ bounds
MaxRedirectsIn == 2     \* largest numeric maxRedirects a caller passes
MaxDepth == 3           \* most requests in one redirect chain
MaxChunks == 2          \* chunks a piped source stream produces

\* ------------------------------------------------------- optional values
None == <<>>
Some(v) == <<v>>
The(o) == o[1]
IsSome(o) == Len(o) > 0

\* ------------------------------------------------------------ JS numbers
\* A number is kept in halves (h = 2 * value) so that Math.floor is not
\* the identity; Infinity is a number of its own.
\* NaN is a number too: Math.floor(NaN), Math.max(NaN, 0) and NaN - 1 are NaN
\* and NaN > 0 is false.
Num(h) == [inf |-> FALSE, nan |-> FALSE, h |-> h]
Infinity == [inf |-> TRUE, nan |-> FALSE, h |-> 0]
NaN == [inf |-> FALSE, nan |-> TRUE, h |-> 0]
Zero == Num(0)
Floor(n) == IF n.inf \/ n.nan THEN n ELSE Num(2 * (n.h \div 2))
Max0(n) == IF n.nan \/ n.inf \/ n.h > 0 THEN n ELSE Zero
Greater0(n) == ~n.nan /\ (n.inf \/ n.h > 0)
MinusOne(n) == IF n.inf \/ n.nan THEN n ELSE Num(n.h - 2)

\* --------------------------------------------------------------- strings
\* A URI string is a sequence of tokens: scheme, host, an optional port,
\* path.  A path token starts with '/'.
Schemes == {"http:", "https:", "ftp:"}
Hosts == {"a", "b", "p"}
PortTokens == {"8080"}
PathTokens == {"/", "/x", "/y"}
startsWithSlash(s) == Len(s) > 0 /\ s[1] \in PathTokens

\* outcome of a call that may throw
Throw(e, rs) == [threw |-> TRUE, error |-> e, reqs |-> rs]
Return(v, rs) == [threw |-> FALSE, value |-> v, reqs |-> rs]

\* new url.URL(string): throws on a string that is not an absolute URI
ParseURL(s) ==
  IF Len(s) >= 2 /\ s[1] \in Schemes /\ s[2] \in Hosts
  THEN LET hasPort == Len(s) >= 3 /\ s[3] \in PortTokens
           rest == SubSeq(s, IF hasPort THEN 4 ELSE 3, Len(s))
       IN Return([protocol |-> s[1], hostname |-> s[2],
                  port |-> IF hasPort THEN s[3] ELSE "",
                  pathname |-> IF Len(rest) >= 1 THEN rest[1] ELSE "/"], <<>>)
  ELSE Throw("Invalid URL", <<>>)

uriToURL(uri) == ParseURL(uri)

\* url.host and url.origin: the port is part of them when there is one
host(url) == <<url.hostname>> \o (IF url.port # "" THEN <<url.port>> ELSE <<>>)
origin(url) == <<url.protocol>> \o host(url)

\* --------------------------------------------------------------- options
OptionKeys == {"method", "uri", "proxy", "maxRedirects", "followAllRedirects",
               "body", "form", "formData", "headers", "auth", "agent", "tls"}
NoOptions == [k \in OptionKeys |-> None]

\* object spread { ...a, ...b }
Spread(a, b) == [k \in OptionKeys |-> IF IsSome(b[k]) THEN b[k] ELSE a[k]]

\* reading a property of an object: undefined when the object has no such key
Get(obj, key) == IF key \in DOMAIN obj THEN obj[key] ELSE None

\* A headers object is a set of <<name, value>> pairs, one per name.
NoHeaders == {}
HeaderNamesOf(hs) == {p[1] : p \in hs}
\* object spread { ...a, ...b } of two headers objects
SpreadHeaders(a, b) == {p \in a : p[1] \notin HeaderNamesOf(b)} \cup b
\* headers[name], undefined when absent
Header(hs, name) ==
  IF name \in HeaderNamesOf(hs) THEN Some((CHOOSE p \in hs : p[1] = name)[2]) ELSE None

defaultUserAgent == "Beggar/version (Node.js)"

getMaxRedirects(opts) ==
  IF IsSome(opts.maxRedirects) THEN Max0(Floor(The(opts.maxRedirects)))
  ELSE IF opts.followAllRedirects = Some(TRUE) THEN Infinity
  ELSE Zero

sanitizeOpts(opts) ==
  IF ~IsSome(opts.uri) THEN Throw("begger: uri must be defined", <<>>)
  ELSE LET u == uriToURL(The(opts.uri)) IN
    IF u.threw THEN u
    ELSE LET p == IF IsSome(opts.proxy) THEN uriToURL(The(opts.proxy).uri)
                  ELSE Return(None, <<>>) IN
      IF p.threw THEN p
      ELSE Return(
        [method |-> IF IsSome(opts.method) THEN The(opts.method) ELSE "GET",
         headers |-> IF IsSome(opts.headers) THEN The(opts.headers) ELSE NoHeaders,
         uri |-> u.value,
         proxy |-> IF IsSome(opts.proxy)
                   THEN Some([uri |-> p.value,
                              username |-> The(opts.proxy).username,
                              password |-> The(opts.proxy).password])
                   ELSE None,
         maxRedirects |-> getMaxRedirects(opts),
         auth |-> opts.auth,
         tls |-> opts.tls,
         body |-> opts.body,
         form |-> opts.form,
         formData |-> opts.formData], <<>>)

httpLib(protocol) ==
  IF protocol = "http:" THEN Return("http", <<>>)
  ELSE IF protocol = "https:" THEN Return("https", <<>>)
  ELSE Throw("protocol not supported", <<>>)

\* String.prototype.toUpperCase / toLowerCase on the method names in use
toUpperCase(m) == CASE m = "get" -> "GET" [] m = "post" -> "POST" [] OTHER -> m
toLowerCase(m) == CASE m = "GET" -> "get" [] m = "POST" -> "post" [] OTHER -> m

\* ------------------------------------------------------------ Connection
\* The Connection wrapper (./connection): an event emitter with a writable
\* side.  log is everything done to it, in order.
Connection(options, isProxied) ==
  [options |-> options, proxied |-> isProxied,
   log |-> <<>>, headers |-> <<>>, written |-> <<>>, ended |-> FALSE,
   emitted |-> <<>>, src |-> "none", srcSent |-> 0,
   promise |-> "none", value |-> None, reason |-> "", reacted |-> FALSE,
   reqState |-> "none", reqErrored |-> FALSE, received |-> None,
   redirectedTo |-> None,
   connect |-> "none", piped |-> FALSE, delivered |-> 0, reqBody |-> <<>>,
   reqEnded |-> FALSE]

emit(conn, ev) == [conn EXCEPT !.log = Append(@, ev)]
setHeader(conn, name, value) ==
  [conn EXCEPT !.headers = Append(@, <<name, value>>), !.log = Append(@, "setHeader")]
end(conn) == [conn EXCEPT !.ended = TRUE, !.log = Append(@, "end")]
endWith(conn, payload) ==
  [conn EXCEPT !.written = Append(@, [kind |-> payload, i |-> 0]), !.ended = TRUE,
               !.log = @ \o <<"write", "end">>]
\* source.pipe(conn): the source stream will write its chunks later
pipeFrom(conn, source) == [conn EXCEPT !.src = source, !.log = Append(@, "pipe")]

\* ------------------------------------------------------------ connectors
\* options.auth && options.auth.username + ':' + options.auth.password
basicAuth(options) ==
  IF IsSome(options.auth)
  THEN Some(<<The(options.auth).username, ":", The(options.auth).password>>)
  ELSE None

\* the transport request of a direct connection
directRequest(options, lib) ==
  [kind |-> "direct", lib |-> lib, uri |-> options.uri,
   method |-> toUpperCase(options.method),
   headers |-> SpreadHeaders({<<"User-Agent", defaultUserAgent>>}, options.headers),
   auth |-> basicAuth(options),
   agent |-> Get(options, "agent"),
   tls |-> options.tls]

\* variant: the 'request' event is not emitted when the Connection is made
createConnection_NoRequestEvent(options) ==
  LET lib == httpLib(options.uri.protocol) IN
  IF lib.threw THEN lib
  ELSE LET req == directRequest(options, lib.value)
           conn == [Connection(options, FALSE) EXCEPT !.reqState = "open",
                                                      !.promise = "pending"]
       IN Return(conn, <<req>>)

createConnection(options) ==
  LET lib == httpLib(options.uri.protocol) IN
  IF lib.threw THEN lib
  ELSE LET req == directRequest(options, lib.value)
           conn == [Connection(options, FALSE) EXCEPT !.reqState = "open",
                                                      !.promise = "pending"]
       IN Return(emit(conn, "emit:request"), <<req>>)

\* variant: the proxy is authenticated as soon as a username is given
proxyAuth_UsernameOnly(options) ==
  LET proxy == The(options.proxy) IN
  IF IsSome(proxy.username) /\ The(proxy.username) # ""
  THEN Some(<<"Basic", "base64", The(proxy.username), ":",
              IF IsSome(proxy.password) THEN The(proxy.password) ELSE "undefined">>)
  ELSE None

\* 'Basic ' + base64(username:password) when both are given (and not empty)
proxyAuth(options) ==
  LET proxy == The(options.proxy) IN
  IF IsSome(proxy.username) /\ The(proxy.username) # ""
     /\ IsSome(proxy.password) /\ The(proxy.password) # ""
  THEN Some(<<"Basic", "base64", The(proxy.username), ":", The(proxy.password)>>)
  ELSE None

\* util.format('%s:%s', hostname, port || (http ? '80' : '443'))
proxyPath(options, targetHttpLib) ==
  <<options.uri.hostname, ":",
    IF options.uri.port # "" THEN options.uri.port
    ELSE IF targetHttpLib = "http" THEN "80" ELSE "443">>

\* the CONNECT request sent to the proxy
connectRequest(options, proxyHttpLib, targetHttpLib) ==
  [kind |-> "CONNECT", lib |-> proxyHttpLib, method |-> "CONNECT",
   host |-> The(options.proxy).uri.hostname,
   port |-> The(options.proxy).uri.port,
   headers |->
     {<<"host", host(options.uri)>>,
      <<"User-Agent", IF IsSome(Header(options.headers, "user-agent"))
                      THEN The(Header(options.headers, "user-agent"))
                      ELSE defaultUserAgent>>}
     \cup (IF IsSome(proxyAuth(options))
           THEN {<<"Proxy-Authorization", The(proxyAuth(options))>>} ELSE {}),
   path |-> proxyPath(options, targetHttpLib),
   agent |-> Some(FALSE)]

\* the request made through the tunnel once it is connected
targetRequest(options, targetHttpLib) ==
  [kind |-> "target", lib |-> targetHttpLib, uri |-> options.uri,
   method |-> toUpperCase(options.method),
   headers |-> SpreadHeaders({<<"User-Agent", defaultUserAgent>>}, options.headers),
   auth |-> basicAuth(options),
   socket |-> IF options.uri.protocol = "http:" THEN "tunnel" ELSE "tls over tunnel"]

\* variant: the target scheme is looked up only after the CONNECT request
\* has been opened
createProxiedConnection_LateCheck(options) ==
  LET proxyHttpLib == httpLib(The(options.proxy).uri.protocol)
      targetHttpLib == httpLib(options.uri.protocol)
  IN IF proxyHttpLib.threw THEN proxyHttpLib
     ELSE LET req == connectRequest(options, proxyHttpLib.value,
                                    IF targetHttpLib.threw THEN "" ELSE targetHttpLib.value)
              conn == [Connection(options, TRUE) EXCEPT !.connect = "open"]
          IN IF targetHttpLib.threw THEN Throw(targetHttpLib.error, <<req>>)
             ELSE Return(conn, <<req>>)

\* variant: the target request is made together with the CONNECT request
createProxiedConnection_EagerTarget(options) ==
  LET proxyHttpLib == httpLib(The(options.proxy).uri.protocol)
      targetHttpLib == httpLib(options.uri.protocol)
  IN IF proxyHttpLib.threw THEN proxyHttpLib
     ELSE IF targetHttpLib.threw THEN targetHttpLib
     ELSE LET req == connectRequest(options, proxyHttpLib.value, targetHttpLib.value)
              conn == [Connection(options, TRUE) EXCEPT !.connect = "open",
                                                        !.reqState = "open"]
          IN Return(emit(conn, "emit:request"),
                    <<req, targetRequest(options, targetHttpLib.value)>>)

createProxiedConnection(options) ==
  LET proxyHttpLib == httpLib(The(options.proxy).uri.protocol)
      targetHttpLib == httpLib(options.uri.protocol)
  IN IF proxyHttpLib.threw THEN proxyHttpLib
     ELSE IF targetHttpLib.threw THEN targetHttpLib
     ELSE LET req == connectRequest(options, proxyHttpLib.value, targetHttpLib.value)
              conn == [Connection(options, TRUE) EXCEPT !.connect = "open"]
          IN Return(conn, <<req>>)

\* variant: what was written before the tunnel existed is not piped
onConnect_DropBuffered(conn) ==
  [emit(conn, "emit:request") EXCEPT !.connect = "connected", !.reqState = "open",
                                     !.piped = TRUE, !.delivered = Len(conn.written)]

\* the 'connect' listener: the target request exists, 'request' is emitted
\* and the pass-through is piped into the target request
onConnect(conn) ==
  [emit(conn, "emit:request") EXCEPT !.connect = "connected", !.reqState = "open",
                                     !.piped = TRUE]

\* ---------------------------------------------------------- body encoder
\* variant: formData is looked at before form
BodyEncoder_FormDataFirst(options, conn) ==
  IF options.method = "" \/ toLowerCase(options.method) = "get" THEN end(conn)
  ELSE IF options.body \in {Some("string"), Some("Buffer")}
    THEN endWith(setHeader(conn, "Content-Length", "length:body"), "body")
  ELSE IF options.body = Some("bytestream") THEN pipeFrom(conn, "body")
  ELSE IF IsSome(options.body)
    THEN endWith(setHeader(setHeader(conn, "Content-Type", "application/json; charset=utf-8"),
                           "Content-Length", "length:json"), "json")
  ELSE IF IsSome(options.formData)
    THEN pipeFrom(setHeader(conn, "Content-Type", "multipart/form-data;boundary="), "formData")
  ELSE IF IsSome(options.form)
    THEN endWith(setHeader(setHeader(conn, "Content-Type", "application/x-www-form-urlencoded"),
                           "Content-Length", "length:form"), "form")
  ELSE conn

BodyEncoder(options, conn) ==
  IF options.method = "" \/ toLowerCase(options.method) = "get" THEN end(conn)
  ELSE IF options.body \in {Some("string"), Some("Buffer")}
    THEN endWith(setHeader(conn, "Content-Length", "length:body"), "body")
  ELSE IF options.body = Some("bytestream") THEN pipeFrom(conn, "body")
  ELSE IF IsSome(options.body)
    THEN endWith(setHeader(setHeader(conn, "Content-Type", "application/json; charset=utf-8"),
                           "Content-Length", "length:json"), "json")
  ELSE IF IsSome(options.form)
    THEN endWith(setHeader(setHeader(conn, "Content-Type", "application/x-www-form-urlencoded"),
                           "Content-Length", "length:form"), "form")
  ELSE IF IsSome(options.formData)
    THEN pipeFrom(setHeader(conn, "Content-Type", "multipart/form-data;boundary="), "formData")
  ELSE conn

\* ----------------------------------------------------------- entry point
\* arg is the first argument: a URI string (isUri) or an options object.
isUri(arg) == arg.isUri

\* variant: the proxy option is not looked at when the connector is chosen
_request_IgnoresProxy(arg, opts) ==
  LET s == sanitizeOpts(IF isUri(arg)
                        THEN Spread(opts, [NoOptions EXCEPT !.uri = Some(arg.uri)])
                        ELSE Spread(opts, arg.options))
  IN IF s.threw THEN s
     ELSE LET options == s.value
              c == createConnection(options)
          IN IF c.threw THEN c
             ELSE Return(BodyEncoder(options, c.value), c.reqs)

_request(arg, opts) ==
  LET s == sanitizeOpts(IF isUri(arg)
                        THEN Spread(opts, [NoOptions EXCEPT !.uri = Some(arg.uri)])
                        ELSE Spread(opts, arg.options))
  IN IF s.threw THEN s
     ELSE LET options == s.value
              c == IF IsSome(options.proxy) THEN createProxiedConnection(options)
                   ELSE createConnection(options)
          IN IF c.threw THEN c
             ELSE Return(BodyEncoder(options, c.value), c.reqs)

\* variant: the defaults override the per-call options
wrapWithDefaults_DefaultsWin(defaults, arg, opts) ==
  IF isUri(arg) THEN _request(arg, Spread(opts, defaults))
  ELSE _request([arg EXCEPT !.options = Spread(arg.options, defaults)], NoOptions)

wrapWithDefaults(defaults, arg, opts) ==
  IF isUri(arg) THEN _request(arg, Spread(defaults, opts))
  ELSE _request([arg EXCEPT !.options = Spread(defaults, arg.options)], NoOptions)

methodRequests(verb, arg, opts) ==
  wrapWithDefaults([NoOptions EXCEPT !.method = Some(verb)], arg, opts)

UriArg(s) == [isUri |-> TRUE, uri |-> s, options |-> NoOptions]
OptionsArg(o) == [isUri |-> FALSE, uri |-> <<>>, options |-> o]

\* ---------------------------------------------------------------- inputs
TargetURIs == {<<"http:", "a", "/x">>, <<"https:", "a", "/x">>}
BadURIs == {<<"ftp:", "a", "/x">>, <<"/x">>}
ProxyObject(u) == [uri |-> u, username |-> None, password |-> None]
ProxyWith(u, user, pass) == [uri |-> u, username |-> user, password |-> pass]
ProxyValues == {Some(ProxyObject(<<"http:", "p">>)), Some(ProxyObject(<<"ftp:", "p">>))}
MaxRedirectsValues == {Some(Num(h)) : h \in -1 .. 2 * MaxRedirectsIn} \cup {Some(NaN)}

\* calls that exercise normalisation, the connectors and redirects
ProtocolInputs ==
  {[defaults |-> None, arg |-> a,
    opts |-> [NoOptions EXCEPT !.method = m, !.body = b, !.proxy = p,
                               !.maxRedirects = r, !.followAllRedirects = f]] :
     a \in {UriArg(u) : u \in TargetURIs \cup BadURIs} \cup {OptionsArg(NoOptions)},
     m \in {None, Some("POST")}, b \in {None, Some("string")},
     p \in {None} \cup ProxyValues,
     r \in {None} \cup MaxRedirectsValues, f \in {None, Some(TRUE)}}

\* calls that exercise every combination the body encoder looks at
BodyInputs ==
  {[defaults |-> None,
    arg |-> OptionsArg([NoOptions EXCEPT !.uri = Some(<<"http:", "a", "/x">>),
                                         !.method = m, !.body = b, !.form = fo,
                                         !.formData = fd, !.proxy = p]),
    opts |-> NoOptions] :
     m \in {None, Some("get"), Some("POST")},
     b \in {None, Some("string"), Some("Buffer"), Some("bytestream"),
            Some("objectstream"), Some("object")},
     fo \in {None, Some("form")}, fd \in {None, Some("formData")},
     p \in {None, Some(ProxyObject(<<"http:", "p">>))}}

\* calls made through request.defaults(d), with headers in both layers
HeadersValues == {None, Some({<<"X-A", "1">>}), Some({<<"X-B", "2">>}),
                  Some({<<"X-A", "3">>, <<"X-B", "4">>})}
DefaultsInputs ==
  {[defaults |-> Some([NoOptions EXCEPT !.headers = d]),
    arg |-> UriArg(<<"http:", "a", "/x">>),
    opts |-> [NoOptions EXCEPT !.headers = h]] : d \in HeadersValues, h \in HeadersValues}
  \cup
  {[defaults |-> Some([NoOptions EXCEPT !.headers = d]),
    arg |-> OptionsArg([NoOptions EXCEPT !.uri = Some(<<"http:", "a", "/x">>),
                                         !.headers = h]),
    opts |-> NoOptions] : d \in HeadersValues, h \in HeadersValues}

\* proxied calls with and without proxy credentials and target ports
ProxyAuthInputs ==
  {[defaults |-> None, arg |-> UriArg(u),
    opts |-> [NoOptions EXCEPT
                !.proxy = Some(ProxyWith(<<"http:", "p", "8080">>, user, pass)),
                !.headers = h]] :
     u \in {<<"http:", "a", "/x">>, <<"https:", "a", "/x">>,
            <<"http:", "a", "8080", "/x">>, <<"https:", "a", "8080", "/x">>},
     user \in {None, Some("user")}, pass \in {None, Some("secret")},
     h \in {None, Some({<<"user-agent", "custom">>})}}

\* direct calls that carry headers, credentials, tls options and an agent,
\* and follow redirects
CredentialInputs ==
  {[defaults |-> None, arg |-> UriArg(u),
    opts |-> [NoOptions EXCEPT
                !.method = Some("POST"), !.body = Some("string"),
                !.headers = IF c THEN Some({<<"X-A", "1">>}) ELSE None,
                !.auth = IF c THEN Some([username |-> "user", password |-> "secret"])
                         ELSE None,
                !.tls = IF c THEN Some("tls options") ELSE None,
                !.agent = a,
                !.maxRedirects = r[1], !.followAllRedirects = r[2]]] :
     u \in {<<"http:", "a", "/x">>, <<"https:", "a", "8080", "/x">>},
     c \in BOOLEAN, a \in {None, Some("agent")},
     r \in {<<Some(Num(2)), None>>, <<None, Some(TRUE)>>}}

Inputs == ProtocolInputs \cup BodyInputs \cup DefaultsInputs \cup ProxyAuthInputs
          \cup CredentialInputs

\* what a server may answer
Locations == {None, Some(<<"/y">>), Some(<<"http:", "b", "/y">>), Some(<<"next">>)}
ServerResponses ==
  {[status |-> 200, location |-> None]}
  \cup {[status |-> st, location |-> Some(<<"/y">>)] : st \in {300, 301, 303, 304}}
  \cup {[status |-> 302, location |-> l] : l \in Locations}

\* ------------------------------------------------------------------ state
VARIABLES
  pc,        \* "idle", "called" (the entry point returned), "threw"
  input,     \* the arguments of the top-level call
  thrown,    \* the message of the error thrown to the caller
  conns,     \* conns[1] is the caller's Connection, conns[k+1] the one
             \* created for the redirect followed at level k
  requests,  \* the transport requests opened so far, in order
  uncaught   \* an exception escaped an event handler

vars == <<pc, input, thrown, conns, requests, uncaught>>

Init ==
  /\ pc = "idle"
  /\ input \in Inputs
  /\ thrown = ""
  /\ conns = <<>>
  /\ requests = <<>>
  /\ uncaught = FALSE

\* the top-level call request(arg, opts), or request.defaults(d)(arg, opts)
Request ==
  /\ pc = "idle"
  /\ LET out == IF IsSome(input.defaults)
                THEN wrapWithDefaults(The(input.defaults), input.arg, input.opts)
                ELSE _request(input.arg, input.opts) IN
       /\ requests' = requests \o out.reqs
       /\ IF out.threw
          THEN pc' = "threw" /\ thrown' = out.error /\ conns' = conns
          ELSE pc' = "called" /\ thrown' = thrown /\ conns' = <<out.value>>
  /\ UNCHANGED <<input, uncaught>>

\* ------------------------------------------------------ redirect handling
\* variant: a budget of zero still follows
ShouldRedirect_ZeroBudgetFollows(options, resp) ==
  (options.maxRedirects.inf \/ options.maxRedirects.h >= 0)
  /\ resp.status >= 301 /\ resp.status <= 303

\* variant: 301 is not taken for a redirect
ShouldRedirect_Above301(options, resp) ==
  Greater0(options.maxRedirects) /\ resp.status > 301 /\ resp.status <= 303

ShouldRedirect(options, resp) ==
  Greater0(options.maxRedirects) /\ resp.status >= 301 /\ resp.status <= 303

qualifiedRedirection(options, location) ==
  IF IsSome(location) /\ startsWithSlash(The(location))
  THEN origin(options.uri) \o The(location)
  ELSE IF IsSome(location) /\ Len(The(location)) > 0 THEN The(location)
  ELSE <<"/">>

\* variant: the budget is passed on without being decremented
followRedirect_SameBudget(options, q) ==
  methodRequests("get", UriArg(q),
                 [NoOptions EXCEPT !.maxRedirects = Some(options.maxRedirects)])

\* variant: the headers and credentials of the redirected request are
\* passed on to the re-issued one
followRedirect_KeepsOptions(options, q) ==
  methodRequests("get", UriArg(q),
                 [NoOptions EXCEPT !.maxRedirects = Some(MinusOne(options.maxRedirects)),
                                   !.headers = Some(options.headers),
                                   !.auth = options.auth])

\* request.get(qualifiedRedirection, { maxRedirects: options.maxRedirects - 1 })
followRedirect(options, q) ==
  methodRequests("get", UriArg(q),
                 [NoOptions EXCEPT !.maxRedirects = Some(MinusOne(options.maxRedirects))])

\* variant: the location is appended to the trail
withRedirect_Append(q, nextResp) ==
  [nextResp EXCEPT !.redirects = Some((IF IsSome(@) THEN The(@) ELSE <<>>) \o <<q>>)]

\* nextResp.redirects = [qualifiedRedirection, ...(nextResp.redirects || [])]
withRedirect(q, nextResp) ==
  [nextResp EXCEPT !.redirects = Some(<<q>> \o (IF IsSome(@) THEN The(@) ELSE <<>>))]

\* resolve / reject of responsePromise: a settled promise stays as it is
resolve(conn, resp) ==
  IF conn.promise = "pending"
  THEN [conn EXCEPT !.promise = "resolved", !.value = Some(resp)] ELSE conn
reject(conn, err) ==
  IF conn.promise = "pending"
  THEN [conn EXCEPT !.promise = "rejected", !.reason = err] ELSE conn

\* conns[k].emit('response', r): for k > 1 the listener the redirect handler
\* of level k-1 registered runs
emitResponse(cs, k, r) ==
  IF k = 1
  THEN [cs EXCEPT ![1] = [emit(@, "emit:response") EXCEPT !.emitted = Append(@, r)]]
  ELSE LET nextResp == withRedirect(The(cs[k - 1].redirectedTo), r) IN
       [cs EXCEPT ![k] = [emit(@, "emit:response") EXCEPT !.emitted = Append(@, nextResp)],
                  ![k - 1] = resolve(@, nextResp)]

\* conns[k].emit('error', err): for k > 1 the listener is reject
emitError(cs, k, err) ==
  IF k = 1
  THEN [cs EXCEPT ![1] = emit(@, "emit:error")]
  ELSE [cs EXCEPT ![k] = emit(@, "emit:error"), ![k - 1] = reject(@, err)]

\* the Connection wrapper reports a failure of the request it wraps
forwardError(cs, k) == emitError(cs, k, "transport error")

\* promise reactions run before the next transport event is dispatched
NoPendingReaction ==
  \A k \in DOMAIN conns : conns[k].promise \in {"resolved", "rejected"} => conns[k].reacted

Running == pc = "called" /\ ~uncaught

\* 'response' on the request of a direct connection
TransportResponse(k, r) ==
  /\ Running /\ NoPendingReaction
  /\ k \in DOMAIN conns /\ ~conns[k].proxied
  /\ conns[k].reqState = "open" /\ ~conns[k].reqErrored
  /\ LET c == conns[k]
         resp == [status |-> r.status, location |-> r.location,
                  redirects |-> None, from |-> k]
         got == [c EXCEPT !.reqState = "responded", !.received = Some(resp)]
     IN IF ShouldRedirect(c.options, resp)
        THEN /\ Len(conns) < MaxDepth
             /\ LET q == qualifiedRedirection(c.options, resp.location)
                    next == followRedirect(c.options, q)
                IN /\ requests' = requests \o next.reqs
                   /\ IF next.threw
                      THEN /\ uncaught' = TRUE
                           /\ conns' = [conns EXCEPT ![k] = got]
                      ELSE /\ uncaught' = uncaught
                           /\ conns' = Append([conns EXCEPT ![k] =
                                                 [got EXCEPT !.redirectedTo = Some(q)]],
                                              next.value)
        ELSE /\ conns' = [conns EXCEPT ![k] = resolve(got, resp)]
             /\ UNCHANGED <<requests, uncaught>>
  /\ UNCHANGED <<pc, input, thrown>>

\* 'error' on the request of a direct connection, before or after headers
TransportError(k) ==
  /\ Running /\ NoPendingReaction
  /\ k \in DOMAIN conns /\ ~conns[k].proxied
  /\ conns[k].reqState \in {"open", "responded"} /\ ~conns[k].reqErrored
  /\ conns' = forwardError([conns EXCEPT ![k].reqErrored = TRUE], k)
  /\ UNCHANGED <<pc, input, thrown, requests, uncaught>>

\* responsePromise.then(response => conn.emit('response', response),
\*                      err => conn.emit('error', err))
PromiseReaction(k) ==
  /\ Running
  /\ k \in DOMAIN conns
  /\ conns[k].promise \in {"resolved", "rejected"} /\ ~conns[k].reacted
  /\ LET cs == [conns EXCEPT ![k].reacted = TRUE] IN
       conns' = IF conns[k].promise = "resolved"
                THEN emitResponse(cs, k, The(conns[k].value))
                ELSE emitError(cs, k, conns[k].reason)
  /\ UNCHANGED <<pc, input, thrown, requests, uncaught>>

\* ------------------------------------------------------------ proxy path
\* 'connect' on the CONNECT request
ProxyConnect(k) ==
  /\ Running
  /\ k \in DOMAIN conns /\ conns[k].proxied /\ conns[k].connect = "open"
  /\ LET o == conns[k].options
         req == targetRequest(o, httpLib(o.uri.protocol).value)
     IN /\ requests' = Append(requests, req)
        /\ conns' = [conns EXCEPT ![k] = onConnect(@)]
  /\ UNCHANGED <<pc, input, thrown, uncaught>>

\* 'error' on the CONNECT request
ProxyError(k) ==
  /\ Running
  /\ k \in DOMAIN conns /\ conns[k].proxied /\ conns[k].connect = "open"
  /\ conns' = emitError([conns EXCEPT ![k].connect = "errored"], k, "proxy error")
  /\ UNCHANGED <<pc, input, thrown, requests, uncaught>>

\* 'response' on the target request of a proxied connection
TargetResponse(k, r) ==
  /\ Running
  /\ k \in DOMAIN conns /\ conns[k].proxied
  /\ conns[k].reqState = "open" /\ ~conns[k].reqErrored
  /\ LET resp == [status |-> r.status, location |-> r.location,
                  redirects |-> None, from |-> k]
     IN conns' = emitResponse([conns EXCEPT ![k].reqState = "responded",
                                            ![k].received = Some(resp)], k, resp)
  /\ UNCHANGED <<pc, input, thrown, requests, uncaught>>

\* 'error' on the target request of a proxied connection
TargetError(k) ==
  /\ Running
  /\ k \in DOMAIN conns /\ conns[k].proxied
  /\ conns[k].reqState \in {"open", "responded"} /\ ~conns[k].reqErrored
  /\ conns' = emitError([conns EXCEPT ![k].reqErrored = TRUE], k, "transport error")
  /\ UNCHANGED <<pc, input, thrown, requests, uncaught>>

\* passthrough.pipe(req): what was written to the Connection reaches the
\* target request, in order, then the end
Flow(k) ==
  /\ Running
  /\ k \in DOMAIN conns /\ conns[k].piped /\ ~conns[k].reqErrored
  /\ \/ /\ conns[k].delivered < Len(conns[k].written)
        /\ conns' = [conns EXCEPT ![k] =
                       [emit(@, "req:write") EXCEPT
                          !.delivered = @ + 1,
                          !.reqBody = Append(@, conns[k].written[conns[k].delivered + 1])]]
     \/ /\ conns[k].delivered = Len(conns[k].written)
        /\ conns[k].ended /\ ~conns[k].reqEnded
        /\ conns' = [conns EXCEPT ![k] = [emit(@, "req:end") EXCEPT !.reqEnded = TRUE]]
  /\ UNCHANGED <<pc, input, thrown, requests, uncaught>>

\* ---------------------------------------------------------- piped bodies
\* the piped source (options.body or the multipart form) writes a chunk
SourceData(k) ==
  /\ Running
  /\ k \in DOMAIN conns /\ conns[k].src # "none" /\ ~conns[k].ended
  /\ conns[k].srcSent < MaxChunks
  /\ conns' = [conns EXCEPT ![k] =
                 [emit(@, "write") EXCEPT
                    !.srcSent = @ + 1,
                    !.written = Append(@, [kind |-> conns[k].src,
                                           i |-> conns[k].srcSent + 1])]]
  /\ UNCHANGED <<pc, input, thrown, requests, uncaught>>

\* the piped source ends
SourceEnd(k) ==
  /\ Running
  /\ k \in DOMAIN conns /\ conns[k].src # "none" /\ ~conns[k].ended
  /\ conns' = [conns EXCEPT ![k] = end(@)]
  /\ UNCHANGED <<pc, input, thrown, requests, uncaught>>

Levels == 1 .. MaxDepth

Next ==
  \/ Request
  \/ \E k \in Levels, r \in ServerResponses : TransportResponse(k, r)
  \/ \E k \in Levels : TransportError(k)
  \/ \E k \in Levels : PromiseReaction(k)
  \/ \E k \in Levels : ProxyConnect(k)
  \/ \E k \in Levels : ProxyError(k)
  \/ \E k \in Levels, r \in ServerResponses : TargetResponse(k, r)
  \/ \E k \in Levels : TargetError(k)
  \/ \E k \in Levels : Flow(k)
  \/ \E k \in Levels : SourceData(k)
  \/ \E k \in Levels : SourceEnd(k)

Spec == Init /\ [][Next]_vars

\* calls made through a proxy only
InitProxied == Init /\ IsSome((IF input.arg.isUri THEN input.opts ELSE input.arg.options).proxy)

NextProxied ==
  \/ Request
  \/ \E k \in Levels : ProxyConnect(k)
  \/ \E k \in Levels : ProxyError(k)
  \/ \E k \in Levels, r \in ServerResponses : TargetResponse(k, r)
  \/ \E k \in Levels : TargetError(k)
  \/ \E k \in Levels : Flow(k)
  \/ \E k \in Levels : SourceData(k)
  \/ \E k \in Levels : SourceEnd(k)

SpecProxied == InitProxied /\ [][NextProxied]_vars

\* ================================================================ claims
Top == conns[1]
Called == pc = "called"
Count(log, e) == Cardinality({i \in DOMAIN log : log[i] = e})
Emitted(c, ev) == \E i \in DOMAIN c.log : c.log[i] = ev
IsRedirectStatus(st) == st >= 301 /\ st <= 303
\* the options of the top-level call as the caller gave them
Given == IF input.arg.isUri THEN input.opts ELSE input.arg.options
GivenURI == IF input.arg.isUri THEN Some(input.arg.uri) ELSE input.arg.options.uri
Trail(r) == IF IsSome(r.redirects) THEN The(r.redirects) ELSE <<>>
Followed == Len(conns) - 1
Visited(i) == The(conns[i].redirectedTo)

\* every request of the chain was answered by a redirect and none failed
AllRedirected ==
  \A k \in DOMAIN conns :
    /\ IsSome(conns[k].received)
    /\ IsRedirectStatus(The(conns[k].received).status)
    /\ ~conns[k].reqErrored

C2_MostRecentFirst ==
  Called => \A n \in DOMAIN Top.emitted :
    /\ Len(Trail(Top.emitted[n])) = Followed
    /\ \A i \in 1 .. Followed : Trail(Top.emitted[n])[i] = Visited(Followed + 1 - i)

\* C2 amended: the trail has one entry per redirect followed, in the order
\* the locations were visited (the first location redirected to first).
C2_VisitingOrder ==
  Called => \A n \in DOMAIN Top.emitted :
    /\ Len(Trail(Top.emitted[n])) = Followed
    /\ \A i \in 1 .. Followed : Trail(Top.emitted[n])[i] = Visited(i)

C2_Witness ==
  /\ Called /\ Len(Top.emitted) = 1 /\ Followed = 2
  /\ Visited(1) # Visited(2)
  /\ Trail(Top.emitted[1]) = <<Visited(1), Visited(2)>>

\* C3: with maxRedirects = 0, or with neither maxRedirects nor
\* followAllRedirects given, no request is re-issued and a 301-303 response
\* is emitted as it was received, without a redirect trail.
C3_NoRedirectsByDefault ==
  (Called /\ (Given.maxRedirects = Some(Zero)
              \/ (Given.maxRedirects = None /\ Given.followAllRedirects = None))) =>
    /\ Len(conns) = 1
    /\ Len(requests) <= (IF Top.proxied THEN 2 ELSE 1)
    /\ \A n \in DOMAIN Top.emitted :
         Top.emitted[n] = The(Top.received) /\ Top.emitted[n].redirects = None
    /\ (IsSome(Top.received) /\ NoPendingReaction) => Top.emitted = <<The(Top.received)>>

C3_Witness ==
  /\ Called /\ ~Top.proxied
  /\ Given.maxRedirects = None /\ Given.followAllRedirects = None
  /\ Len(Top.emitted) = 1 /\ Top.emitted[1].status = 302
  /\ Top.emitted[1].redirects = None /\ Len(requests) = 1

\* C4: the caller's Connection emits at most one 'response' and never both
\* a 'response' and an 'error'.
C4_ResponseXorError ==
  Called =>
    /\ Count(Top.log, "emit:response") <= 1
    /\ ~(Emitted(Top, "emit:response") /\ Emitted(Top, "emit:error"))

\* C5: on the direct path the caller's Connection never emits a redirect
\* response that was received while the budget was positive; what it emits
\* is the response of the last request of the chain, received when every
\* earlier request had been answered, and that response is terminal.
C5_OnlyTerminalResponse ==
  (Called /\ ~Top.proxied) => \A n \in DOMAIN Top.emitted :
    LET r == Top.emitted[n] IN
      /\ r.from = Len(conns)
      /\ \A k \in DOMAIN conns : conns[k].reqState = "responded"
      /\ ~(IsRedirectStatus(r.status) /\ Greater0(conns[r.from].options.maxRedirects))
      /\ r.status = The(conns[r.from].received).status
      /\ r.location = The(conns[r.from].received).location

C5_Witness ==
  /\ Called /\ ~Top.proxied /\ Len(conns) >= 2
  /\ Len(Top.emitted) = 1 /\ Top.emitted[1].from = Len(conns)
  /\ IsRedirectStatus(The(Top.received).status)

\* C6 as stated: 'request' is emitted at most once and before the body
\* encoder writes to or ends the Connection, on both paths.
C6_RequestBeforeWrites ==
  Called =>
    /\ Count(Top.log, "emit:request") <= 1
    /\ \A i \in DOMAIN Top.log :
         Top.log[i] \in {"write", "end"} =>
           \E j \in 1 .. i - 1 : Top.log[j] = "emit:request"

\* C6 amended: 'request' is emitted at most once on both paths; on the direct
\* path it precedes every write to and the end of the Connection; on the
\* proxied path (where the encoder writes into the pass-through before the
\* tunnel exists) it precedes every byte and the end reaching the target
\* request.
C6_RequestBeforeDelivery ==
  Called =>
    /\ Count(Top.log, "emit:request") <= 1
    /\ \A i \in DOMAIN Top.log :
         Top.log[i] \in (IF Top.proxied THEN {"req:write", "req:end"}
                         ELSE {"write", "end"}) =>
           \E j \in 1 .. i - 1 : Top.log[j] = "emit:request"

C6_Witness ==
  /\ Called /\ Top.proxied
  /\ \E i \in DOMAIN Top.log, j \in DOMAIN Top.log, l \in DOMAIN Top.log :
       /\ i < j /\ j < l
       /\ Top.log[i] = "write" /\ Top.log[j] = "emit:request"
       /\ Top.log[l] = "req:write"

\* what the body encoder did to a Connection
EndedImmediately(c) == c.src = "none" /\ c.ended /\ c.written = <<>>
WroteThenEnded(c) == c.src = "none" /\ c.ended /\ Len(c.written) = 1
Piped(c) == Emitted(c, "pipe")
Holds(b) == IF b THEN 1 ELSE 0

\* C7: for every request attempt the body encoder did exactly one of: end
\* immediately, write a payload then end, pipe a stream into the Connection.
C7_ExactlyOneStrategy ==
  Called => \A k \in DOMAIN conns :
    Holds(EndedImmediately(conns[k])) + Holds(WroteThenEnded(conns[k]))
      + Holds(Piped(conns[k])) = 1

\* C8: only the first matching case of the body encoder applies, in the
\* order GET or no method, string/Buffer body, byte-stream body, any other
\* body (JSON), form, formData; with none matching nothing is written and
\* no header is set.
IsGet == Given.method \in {None, Some("get"), Some("GET")}
HeaderNames(c) == [i \in DOMAIN c.headers |-> c.headers[i][1]]
FromSource(c, source) ==
  /\ c.src = source
  /\ \A i \in DOMAIN c.written : c.written[i].kind = source /\ c.written[i].i >= 1
Payload(c, kind) == c.src = "none" /\ c.written = <<[kind |-> kind, i |-> 0]>>

C8_FirstMatchOnly ==
  Called =>
    IF IsGet
      THEN Top.headers = <<>> /\ Top.written = <<>> /\ Top.src = "none" /\ Top.ended
    ELSE IF Given.body \in {Some("string"), Some("Buffer")}
      THEN Payload(Top, "body") /\ HeaderNames(Top) = <<"Content-Length">>
    ELSE IF Given.body = Some("bytestream")
      THEN FromSource(Top, "body") /\ Top.headers = <<>>
    ELSE IF Given.body # None
      THEN Payload(Top, "json") /\ HeaderNames(Top) = <<"Content-Type", "Content-Length">>
           /\ Top.headers[1][2] = "application/json; charset=utf-8"
    ELSE IF Given.form # None
      THEN Payload(Top, "form") /\ HeaderNames(Top) = <<"Content-Type", "Content-Length">>
           /\ Top.headers[1][2] = "application/x-www-form-urlencoded"
    ELSE IF Given.formData # None
      THEN FromSource(Top, "formData") /\ HeaderNames(Top) = <<"Content-Type">>
    ELSE Top.headers = <<>> /\ Top.written = <<>> /\ Top.src = "none"

C8_Witness ==
  /\ Called /\ Given.method = Some("POST") /\ Given.body = Some("string")
  /\ Given.form # None /\ Given.formData # None
  /\ Payload(Top, "body")

\* C9: a call without a URI, or whose target or proxy URI has a scheme other
\* than http: and https:, throws to the caller, and at the throw no
\* transport request has been opened.
NoURIGiven == GivenURI = None
UnsupportedScheme(s) == Len(s) > 0 /\ s[1] \in Schemes \ {"http:", "https:"}
BadScheme ==
  \/ (IsSome(GivenURI) /\ UnsupportedScheme(The(GivenURI)))
  \/ (IsSome(Given.proxy) /\ UnsupportedScheme(The(Given.proxy).uri))

C9_FailFast ==
  /\ (pc # "idle" /\ (NoURIGiven \/ BadScheme)) => pc = "threw"
  /\ pc = "threw" => requests = <<>> /\ conns = <<>> /\ thrown # ""

C9_Witness ==
  /\ pc = "threw" /\ thrown = "protocol not supported" /\ requests = <<>>
  /\ IsSome(Given.proxy) /\ ~UnsupportedScheme(The(Given.proxy).uri)
  /\ UnsupportedScheme(The(GivenURI))

\* C10: on the direct path no failure met while the call is in progress is
\* thrown from an event handler, and once a request of the chain has failed
\* the caller's Connection has emitted 'error'.
C10_ErrorsAreEvents ==
  (Called /\ ~Top.proxied) =>
    /\ ~uncaught
    /\ ((\E k \in DOMAIN conns : conns[k].reqErrored) /\ NoPendingReaction) =>
         Emitted(Top, "emit:error")

\* the headers of the defaults layer and of the per-call layer
DefaultHeaders ==
  IF IsSome(The(input.defaults).headers) THEN The(The(input.defaults).headers) ELSE {}
CallHeaders == IF IsSome(Given.headers) THEN The(Given.headers) ELSE {}
ValueIn(hs, name) == {p[2] : p \in {q \in hs : q[1] = name}}

\* C11 as stated: with request.defaults, the headers of the descriptor are
\* the key-wise union of the default and the per-call headers, the per-call
\* value winning for a name present in both.
C11_KeyWiseUnion ==
  (Called /\ IsSome(input.defaults)) =>
    \A name \in {"X-A", "X-B"} :
      ValueIn(Top.options.headers, name) =
        (IF ValueIn(CallHeaders, name) # {} THEN ValueIn(CallHeaders, name)
         ELSE ValueIn(DefaultHeaders, name))

\* C11 amended: the per-call headers object, when given, replaces the
\* default headers object as a whole; the default headers are used only when
\* the call gives no headers.
C11_HeadersReplaced ==
  (Called /\ IsSome(input.defaults)) =>
    Top.options.headers = (IF IsSome(Given.headers) THEN CallHeaders ELSE DefaultHeaders)

C11_Witness ==
  /\ Called /\ IsSome(input.defaults)
  /\ DefaultHeaders = {<<"X-A", "1">>} /\ CallHeaders = {<<"X-B", "2">>}
  /\ Top.options.headers = {<<"X-B", "2">>}
  /\ requests[1].headers = {<<"User-Agent", defaultUserAgent>>, <<"X-B", "2">>}

\* C12: the CONNECT request asks for <target hostname>:<port>, the port being
\* the one of the target URI or else 80 for http: and 443 for https:, and
\* carries Proxy-Authorization: Basic base64(username:password) exactly when
\* both a proxy username and a proxy password are given.
GivenProxy == The(Given.proxy)
C12_ConnectRequest ==
  (Called /\ IsSome(Given.proxy)) =>
    LET u == The(GivenURI)
        connect == requests[1]
        both == IsSome(GivenProxy.username) /\ IsSome(GivenProxy.password)
    IN /\ connect.kind = "CONNECT" /\ connect.method = "CONNECT"
       /\ connect.path = <<u[2], ":",
                           IF u[3] \in PortTokens THEN u[3]
                           ELSE IF u[1] = "http:" THEN "80" ELSE "443">>
       /\ ("Proxy-Authorization" \in HeaderNamesOf(connect.headers)) <=> both
       /\ both => ValueIn(connect.headers, "Proxy-Authorization") =
                    {<<"Basic", "base64", The(GivenProxy.username), ":",
                       The(GivenProxy.password)>>}

C12_Witness ==
  /\ Called /\ IsSome(Given.proxy)
  /\ The(GivenURI) = <<"https:", "a", "/x">>
  /\ IsSome(GivenProxy.username) /\ IsSome(GivenProxy.password)
  /\ requests[1].path = <<"a", ":", "443">>
  /\ "Proxy-Authorization" \in HeaderNamesOf(requests[1].headers)

HasTargetRequest == \E i \in DOMAIN requests : requests[i].kind = "target"

C13_TargetOnlyAfterConnect ==
  (Called /\ IsSome(Given.proxy)) =>
    /\ Top.proxied
    /\ HasTargetRequest => Top.connect = "connected"
    /\ Top.connect # "connected" =>
         /\ ~Emitted(Top, "emit:request") /\ ~Emitted(Top, "emit:response")
         /\ Top.reqState = "none"
    /\ Top.connect = "errored" => Emitted(Top, "emit:error") /\ ~HasTargetRequest

\* C13: on the proxied path a target request exists only once the proxy has
\* answered the CONNECT request with 'connect'; when the CONNECT request
\* fails, 'error' is emitted, neither 'request' nor 'response' is, and this
\* stays so: no target request is made afterwards.
C13_TunnelFirst ==
  /\ []C13_TargetOnlyAfterConnect
  /\ [][(Called /\ Top.proxied /\ Top.connect = "errored") =>
          (conns'[1].connect = "errored" /\ requests' = requests)]_vars

C13_Witness ==
  /\ Called /\ Top.proxied /\ Top.connect = "errored"
  /\ Emitted(Top, "emit:error") /\ ~HasTargetRequest
  /\ Len(Top.written) > 0

\* a non-negative integer or Infinity
IsBudget(b) == ~b.nan /\ (b.inf \/ (b.h >= 0 /\ b.h % 2 = 0))
\* the largest integer not above the number n, and not below zero
FlooredAtZero(n) ==
  IF n.inf THEN Infinity
  ELSE Num(2 * (CHOOSE v \in 0 .. MaxRedirectsIn + 1 :
                  IF n.h < 0 THEN v = 0 ELSE 2 * v <= n.h /\ n.h < 2 * v + 2))

\* C14: the budget of the descriptor is max(floor(maxRedirects), 0) when
\* maxRedirects is a number, whatever followAllRedirects is; otherwise it is
\* unbounded when followAllRedirects is true and 0 when it is not; so it is
\* always a non-negative integer or Infinity.
C14_BudgetNormalised ==
  Called =>
    /\ IsBudget(Top.options.maxRedirects)
    /\ Top.options.maxRedirects =
         (IF IsSome(Given.maxRedirects) THEN FlooredAtZero(The(Given.maxRedirects))
          ELSE IF Given.followAllRedirects = Some(TRUE) THEN Infinity
          ELSE Zero)

\* the URI of a transport request written out as a string again
Href(url) ==
  <<url.protocol, url.hostname>> \o (IF url.port # "" THEN <<url.port>> ELSE <<>>)
  \o <<url.pathname>>
\* the request of level k was answered by a redirect that is to be followed
RedirectDue(k) ==
  /\ IsSome(conns[k].received)
  /\ IsRedirectStatus(The(conns[k].received).status)
  /\ Greater0(conns[k].options.maxRedirects)
\* where the claim says the redirect received at level k leads
StatedTarget(k) ==
  LET loc == The(conns[k].received).location
      from == conns[k].options.uri
  IN IF loc = None THEN <<"/">>
     ELSE IF The(loc)[1] \in PathTokens
       THEN <<from.protocol, from.hostname>>
            \o (IF from.port # "" THEN <<from.port>> ELSE <<>>) \o The(loc)
     ELSE The(loc)

\* C15: whenever a redirect is followed, whether its Location is
\* root-relative, absolute, relative or absent, a request is re-issued, to
\* the origin of the redirected request followed by Location when Location
\* starts with '/', to Location itself otherwise, and to '/' when absent.
C15_ReissuedToStatedTarget ==
  (Called /\ ~Top.proxied) =>
    \A k \in DOMAIN conns :
      RedirectDue(k) =>
        /\ k + 1 \in DOMAIN conns
        /\ k + 1 \in DOMAIN requests
        /\ Href(requests[k + 1].uri) = StatedTarget(k)

\* every transport request issued so far has yielded a response or an error,
\* and every reaction to a settled promise has run
AllAnswered ==
  /\ \A k \in DOMAIN conns : conns[k].reqState = "responded" \/ conns[k].reqErrored
  /\ NoPendingReaction

\* C16: for a direct call with a finite budget N each re-issued request
\* carries the budget of the request that triggered it less one, at most N+1
\* transport requests are issued, and once every issued request has yielded a
\* response or an error the top-level Connection has emitted 'response' or
\* 'error', whatever statuses and Location headers were returned.
C16_ChasingTerminates ==
  (Called /\ ~Top.proxied /\ IsBudget(Top.options.maxRedirects)
     /\ ~Top.options.maxRedirects.inf) =>
    /\ \A k \in DOMAIN conns :
         k > 1 => conns[k].options.maxRedirects = MinusOne(conns[k - 1].options.maxRedirects)
    /\ Len(requests) <= (Top.options.maxRedirects.h \div 2) + 1
    /\ AllAnswered => (Emitted(Top, "emit:response") \/ Emitted(Top, "emit:error"))

\* C17: on the proxied path nothing reaches any request before the target
\* request exists; what reaches the target request is, in write order, what
\* was written to the Connection, the bytes written before the tunnel
\* existed included; and once the pipe has nothing left to pass on, every
\* byte written so far has reached the target request.
C17_BufferedInOrder ==
  (Called /\ Top.proxied) =>
    /\ ~HasTargetRequest => (Top.reqBody = <<>> /\ ~Top.reqEnded)
    /\ Len(Top.reqBody) <= Len(Top.written)
    /\ Top.reqBody = SubSeq(Top.written, 1, Len(Top.reqBody))
    /\ (HasTargetRequest /\ ~Top.reqErrored /\ ~ENABLED Flow(1)) =>
         Top.reqBody = Top.written

C17_Witness ==
  /\ Called /\ Top.proxied /\ HasTargetRequest
  /\ Len(Top.written) >= 2 /\ Top.reqBody = Top.written
  /\ \E i \in DOMAIN Top.log, j \in DOMAIN Top.log, l \in DOMAIN Top.log :
       /\ i < j /\ j < l
       /\ Top.log[i] = "write" /\ Top.log[j] = "emit:request"
       /\ Top.log[l] = "write"

\* C18: the transport request of a direct call is opened with exactly the
\* agent the caller gave.
C18_AgentPassedThrough ==
  (Called /\ ~Top.proxied /\ IsSome(Given.agent)) =>
    requests[1].agent = Given.agent

\* C19: with a proxy configured, whatever maxRedirects or followAllRedirects
\* say, the target's response, a 301-303 one included, is emitted as it was
\* received, with no redirect trail, and no request is re-issued: there is
\* the one Connection, one CONNECT request and at most one target request.
C19_NoRedirectsWhenProxied ==
  (Called /\ IsSome(Given.proxy)) =>
    /\ Len(conns) = 1
    /\ Len(requests) <= 2
    /\ \A i \in DOMAIN requests : requests[i].kind = (IF i = 1 THEN "CONNECT" ELSE "target")
    /\ IsSome(Top.received) =>
         /\ Top.emitted = <<The(Top.received)>>
         /\ Top.emitted[1].redirects = None
         /\ Count(Top.log, "emit:response") = 1

C19_Witness ==
  /\ Called /\ IsSome(Given.proxy)
  /\ Greater0(Top.options.maxRedirects)
  /\ IsSome(Top.received) /\ IsRedirectStatus(The(Top.received).status)
  /\ Len(Top.emitted) = 1 /\ Len(requests) = 2

\* C20: a request re-issued for a redirect is a GET with no body that has
\* the default User-Agent for its only header and no credentials, agent or
\* tls options; its descriptor has no proxy and no body, form or formData,
\* and its budget is the redirected request's budget less one, an unbounded
\* budget staying unbounded.
C20_OnlyLocationAndBudget ==
  Called =>
    \A k \in DOMAIN conns :
      k > 1 =>
        /\ requests[k].kind = "direct"
        /\ requests[k].method = "GET"
        /\ requests[k].headers = {<<"User-Agent", defaultUserAgent>>}
        /\ requests[k].auth = None /\ requests[k].agent = None /\ requests[k].tls = None
        /\ Href(requests[k].uri) = The(conns[k - 1].redirectedTo)
        /\ conns[k].options.proxy = None /\ conns[k].options.body = None
        /\ conns[k].options.form = None /\ conns[k].options.formData = None
        /\ EndedImmediately(conns[k]) /\ conns[k].headers = <<>>
        /\ conns[k].options.maxRedirects = MinusOne(conns[k - 1].options.maxRedirects)
        /\ conns[k - 1].options.maxRedirects.inf => conns[k].options.maxRedirects.inf

C20_Witness ==
  /\ Called /\ Len(conns) = 3
  /\ Given.headers = Some({<<"X-A", "1">>}) /\ IsSome(Given.auth)
  /\ IsSome(Given.tls) /\ IsSome(Given.agent) /\ IsSome(Given.body)
  /\ requests[1].auth # None /\ <<"X-A", "1">> \in requests[1].headers
  /\ The(conns[1].redirectedTo) = <<"http:", "b", "/y">>
  /\ Top.options.maxRedirects.inf /\ conns[3].options.maxRedirects.inf

====
